---- MODULE Spec2Model ----
(***************************************************************************)
(* Model of package db_scan (src/db_scan/db_scan.go): Scan drives a cursor *)
(* (IRows), buffers its rows as column-name -> value maps and binds them   *)
(* by reflection into a caller-supplied destination.                       *)
(*                                                                         *)
(* Go values are modelled as follows.                                      *)
(*   - a type is a sequence of constructors read outside-in, e.g.          *)
(*     <<"ptr","slice","RecNoTag">> is *[]RecNoTag; Elem() is Tail.        *)
(*   - a pointer value is <<>> (nil) or <<v>> (a pointer to a location     *)
(*     that holds v); a slice value is [isnil, elems]; a struct value is   *)
(*     the sequence of its field values.                                   *)
(*   - a dynamically typed value (a cursor value, a struct field) is       *)
(*     [k |-> dynamic type, v |-> payload]; [k |-> "null"] is nil.         *)
(*   - text is a sequence of one-character strings; a floating-point       *)
(*     payload is the number of tenths (15 is 1.5).                        *)
(***************************************************************************)
EXTENDS Integers, Sequences, FiniteSets, TLC

VARIABLES
    pc,       \* position inside Scan: "call","columns","next","rowscan","dispatch","done"
    target,   \* the target argument of Scan: [ty |-> type, val |-> value]
    pre,      \* target as it was when Scan was called
    columns,  \* the column names rows.Columns() returned
    datas,    \* the rows buffered by ExtraDatasFromRows (nil iff empty)
    ret,      \* what Scan returned: "pending", "nil", an error, or "panic"
    ops,      \* number of cursor operations (Columns, Next, Scan) invoked
    drained,  \* rows.Next() has returned false
    bound,    \* a binder (multiResults, singleResult) was entered on the target
    cvPc,     \* position of the stand-alone valueConvert call: "ready","done"
    cvSrc,    \* its sourceVal
    cvField,  \* its rTargetVal: [ty |-> static type, val |-> dynamic value]
    cvPre,    \* the field as it was before the call
    cvRet     \* its result: "pending", "nil" or an error

vars == <<pc, target, pre, columns, datas, ret, ops, drained, bound,
          cvPc, cvSrc, cvField, cvPre, cvRet>>

scanVars == <<pc, target, pre, columns, datas, ret, ops, drained, bound>>
convVars == <<cvPc, cvSrc, cvField, cvPre, cvRet>>

-----------------------------------------------------------------------------
(* Bounds *)

\* most rows the cursor yields before rows.Next() returns false
MaxRows == 2

\* most pointer levels between the target pointer and the record
MaxDepth == 2

-----------------------------------------------------------------------------
(* Errors and configuration (db_scan.go:10-21) *)

ErrTargetNotSettable    == "ErrTargetNotSettable"
ErrConvertValue         == "ErrConvertValue"
ErrUnSupportTypeConvert == "ErrUnSupportTypeConvert"
ErrSliceToString        == "ErrSliceToString"
ErrEmptyResult          == "ErrEmptyResult"

\* the struct tag key read by singleResult
DefaultTagName == "pg"

\* errors that come from the cursor itself, not from this package
ErrCursorColumns == "ErrCursorColumns"
ErrCursorScan    == "ErrCursorScan"

\* a run-time panic that unwinds out of Scan
Panic == "panic"

-----------------------------------------------------------------------------
(* Types and kinds *)

\* The record types handed to Scan.  In Go:
\*   type RecNoTag      struct { A int64 `pg:"a"`; B string `pg:"b"`; C int64 }
\*   type RecEmptyTag   struct { A int64 `pg:"a"`; B string `pg:"b"`; C int64 `pg:""` }
\*   type RecUnexported struct { A int64 `pg:"a"`; B string `pg:"b"`; c int64 `pg:"a"` }
StructNames == {"RecNoTag", "RecEmptyTag", "RecUnexported"}

FieldA == [exported |-> TRUE, hasTag |-> TRUE, tag |-> "a", ty |-> "int64"]
FieldB == [exported |-> TRUE, hasTag |-> TRUE, tag |-> "b", ty |-> "string"]

StructFields(name) ==
    CASE name = "RecNoTag" ->
           <<FieldA, FieldB, [exported |-> TRUE, hasTag |-> FALSE, tag |-> "", ty |-> "int64"]>>
      [] name = "RecEmptyTag" ->
           <<FieldA, FieldB, [exported |-> TRUE, hasTag |-> TRUE, tag |-> "", ty |-> "int64"]>>
      [] name = "RecUnexported" ->
           <<FieldA, FieldB, [exported |-> FALSE, hasTag |-> TRUE, tag |-> "a", ty |-> "int64"]>>

\* reflect.Type.Kind() of a destination type
Kind(ty) ==
    IF ty = <<>> THEN "invalid"
    ELSE IF Head(ty) \in StructNames THEN "struct" ELSE Head(ty)

\* reflect.Type.Kind() of a field's static type or of a value's dynamic type
KindOf(t) ==
    CASE t = "time"  -> "struct"
      [] t = "any"   -> "interface"
      [] t = "bytes" -> "slice"
      [] t = "ints"  -> "slice"
      [] OTHER       -> t

SignedKinds   == {"int", "int8", "int16", "int32", "int64"}
UnsignedKinds == {"uint", "uint8", "uint16", "uint32", "uint64", "uintptr"}
FloatKinds    == {"float32", "float64"}

isFloat(k) == k \in FloatKinds

isSignedInteger(k) == k \in SignedKinds

isUnsignedInteger(k) == k \in UnsignedKinds

isInteger(k) == isSignedInteger(k) \/ isUnsignedInteger(k)

-----------------------------------------------------------------------------
(* Dynamically typed values *)

Null == [k |-> "null", v |-> 0]

Dyn(k, v) == [k |-> k, v |-> v]

\* the zero value of a field of static type t
ZeroField(t) ==
    CASE t \in SignedKinds \cup UnsignedKinds \cup FloatKinds -> Dyn(t, 0)
      [] t = "string" -> Dyn("string", <<>>)
      [] t = "bool"   -> Dyn("bool", FALSE)
      [] t = "bytes"  -> Dyn("bytes", <<>>)
      [] t = "time"   -> Dyn("time", [Y |-> 1, M |-> 1, D |-> 1, h |-> 0, m |-> 0, s |-> 0, ns |-> 0])
      [] t = "any"    -> Null

\* width in bits of the narrow integer kinds the model stores into
Bits(t) ==
    CASE t \in {"int8", "uint8"}   -> 8
      [] t \in {"int16", "uint16"} -> 16

Pow2(n) == IF n = 8 THEN 256 ELSE 65536

\* reflect.Value.SetInt: the int64 is converted to the field's own width
SetInt(t, x) ==
    IF t \in {"int", "int64"} THEN x
    ELSE LET m == Pow2(Bits(t))
             r == x % m
         IN  IF r >= m \div 2 THEN r - m ELSE r

\* reflect.Value.SetUint of uint64(x): wraps modulo the field's width.  The
\* 64-bit kinds are exact only for x >= 0, which is all the model feeds them.
SetUint(t, x) ==
    IF t \in {"uint", "uint64", "uintptr"} THEN x
    ELSE x % Pow2(Bits(t))

-----------------------------------------------------------------------------
(* strconv and time.Format *)

DigitChars == <<"0", "1", "2", "3", "4", "5", "6", "7", "8", "9">>

IsDigit(c) == \E i \in 1..Len(DigitChars) : DigitChars[i] = c

DigitVal(c) == (CHOOSE i \in 1..Len(DigitChars) : DigitChars[i] = c) - 1

AllDigits(s) == \A i \in 1..Len(s) : IsDigit(s[i])

RECURSIVE DigitsValue(_)
DigitsValue(s) ==
    IF s = <<>> THEN 0
    ELSE DigitsValue(SubSeq(s, 1, Len(s) - 1)) * 10 + DigitVal(s[Len(s)])

\* strconv.ParseUint(s, 10, 64): digits only, at least one
ParseUint(s) ==
    IF s # <<>> /\ AllDigits(s)
    THEN [ok |-> TRUE, val |-> DigitsValue(s)]
    ELSE [ok |-> FALSE, val |-> 0]

\* the magnitude u that was parsed, negated under a minus sign
withSign(neg, u) ==
    IF u.ok THEN [ok |-> TRUE, val |-> IF neg THEN 0 - u.val ELSE u.val]
    ELSE [ok |-> FALSE, val |-> 0]

\* strconv.ParseInt(s, 10, 64): an optional sign, then ParseUint
ParseInt(s) ==
    IF s = <<>> THEN [ok |-> FALSE, val |-> 0]
    ELSE withSign(s[1] = "-", ParseUint(IF s[1] \in {"+", "-"} THEN Tail(s) ELSE s))

\* strconv.ParseFloat(s, 64) on decimal text without exponent: an optional
\* sign, digits with at most one point, at least one digit.  The value is in
\* tenths, exact for text with at most one fractional digit.
ParseFloat(s) ==
    IF s = <<>> THEN [ok |-> FALSE, val |-> 0]
    ELSE LET neg  == s[1] = "-"
             rest == IF s[1] \in {"+", "-"} THEN Tail(s) ELSE s
             dots == {i \in 1..Len(rest) : rest[i] = "."}
             dot  == IF dots = {} THEN Len(rest) + 1 ELSE CHOOSE i \in dots : TRUE
             ip   == SubSeq(rest, 1, dot - 1)
             fp   == SubSeq(rest, dot + 1, Len(rest))
             ok   == /\ Cardinality(dots) <= 1
                     /\ AllDigits(ip) /\ AllDigits(fp)
                     /\ Len(ip) + Len(fp) >= 1
             mag  == DigitsValue(ip) * 10 + (IF fp = <<>> THEN 0 ELSE DigitVal(fp[1]))
         IN  IF ok THEN [ok |-> TRUE, val |-> IF neg THEN 0 - mag ELSE mag]
             ELSE [ok |-> FALSE, val |-> 0]

\* n in decimal, zero-padded to at least w digits
RECURSIVE Pad(_, _)
Pad(n, w) ==
    IF n < 10 /\ w <= 1 THEN <<DigitChars[n + 1]>>
    ELSE Append(Pad(n \div 10, w - 1), DigitChars[(n % 10) + 1])

\* a formatter given the date-only layout "2006-01-02"
FormatTime_DateOnly(t) ==
    Pad(t.Y, 4) \o <<"-">> \o Pad(t.M, 2) \o <<"-">> \o Pad(t.D, 2)

\* time.Time.Format(DefaultTimeFormat), layout "2006-01-02 15:04:05": the
\* wall-clock fields, zero-padded; the fraction of a second is dropped
FormatTime(t) ==
    Pad(t.Y, 4) \o <<"-">> \o Pad(t.M, 2) \o <<"-">> \o Pad(t.D, 2) \o <<" ">> \o
    Pad(t.h, 2) \o <<":">> \o Pad(t.m, 2) \o <<":">> \o Pad(t.s, 2)

-----------------------------------------------------------------------------
(* The value converter.  A field is [ty |-> static type, val |-> value];    *)
(* each operator returns the error and the field as the call leaves it.     *)

\* reflect.Type.AssignableTo for the modelled types: identical types, or any
\* type to the empty interface
AssignableTo(sourceType, targetType) ==
    sourceType = targetType \/ targetType = "any"

directSet(sourceVal, field) ==
    IF sourceVal.k = "null" THEN [ok |-> TRUE, field |-> field]
    ELSE IF AssignableTo(sourceVal.k, field.ty)
         THEN [ok |-> TRUE, field |-> [field EXCEPT !.val = sourceVal]]
         ELSE [ok |-> FALSE, field |-> field]

handleConvertTime(assertT, field) ==
    IF KindOf(field.ty) = "string"
    THEN [err |-> "nil", field |-> [field EXCEPT !.val = Dyn(field.ty, FormatTime(assertT))]]
    ELSE [err |-> ErrConvertValue, field |-> field]

\* the field after SetInt, SetUint, SetFloat or SetString of v
setField(field, v) == [err |-> "nil", field |-> [field EXCEPT !.val = Dyn(field.ty, v)]]

\* the outcome of a strconv parse p stored into the field: a parse error is
\* ErrConvertValue, the parsed value is set at the field's own width
storeParsed(p, field) ==
    IF ~p.ok THEN [err |-> ErrConvertValue, field |-> field]
    ELSE IF isSignedInteger(KindOf(field.ty)) THEN setField(field, SetInt(field.ty, p.val))
    ELSE IF isUnsignedInteger(KindOf(field.ty)) THEN setField(field, SetUint(field.ty, p.val))
    ELSE setField(field, p.val)

handleConvertMapSliceToField(mapValue, field) ==
    IF mapValue.k # "bytes" THEN [err |-> ErrSliceToString, field |-> field]
    ELSE IF KindOf(field.ty) = "string" THEN setField(field, mapValue.v)
    ELSE IF isSignedInteger(KindOf(field.ty)) THEN storeParsed(ParseInt(mapValue.v), field)
    ELSE IF isUnsignedInteger(KindOf(field.ty)) THEN storeParsed(ParseUint(mapValue.v), field)
    ELSE IF isFloat(KindOf(field.ty)) THEN storeParsed(ParseFloat(mapValue.v), field)
    ELSE [err |-> ErrUnSupportTypeConvert, field |-> field]

\* the switch on sourceType.Kind() of valueConvert (db_scan.go:218-238)
convertByKind(sourceVal, field) ==
    CASE KindOf(sourceVal.k) = "slice" -> handleConvertMapSliceToField(sourceVal, field)
      [] KindOf(sourceVal.k) = "int64" ->
           IF isSignedInteger(KindOf(field.ty))
           THEN setField(field, SetInt(field.ty, sourceVal.v))
           ELSE IF isUnsignedInteger(KindOf(field.ty))
                THEN setField(field, SetUint(field.ty, sourceVal.v))
                ELSE [err |-> "nil", field |-> field]
      [] KindOf(sourceVal.k) = "float32" ->
           IF isFloat(KindOf(field.ty)) THEN setField(field, sourceVal.v)
           ELSE [err |-> "nil", field |-> field]
      [] KindOf(sourceVal.k) = "float64" ->
           IF isFloat(KindOf(field.ty)) THEN setField(field, sourceVal.v)
           ELSE [err |-> "nil", field |-> field]
      [] OTHER -> [err |-> ErrConvertValue, field |-> field]

\* valueConvert after its directSet call returned d (db_scan.go:209-238)
afterDirectSet(d, sourceVal, field) ==
    IF d.ok THEN [err |-> "nil", field |-> d.field]
    ELSE IF sourceVal.k = "time" THEN handleConvertTime(sourceVal.v, field)
    ELSE convertByKind(sourceVal, field)

valueConvert(sourceVal, field) ==
    IF sourceVal.k = "null" THEN [err |-> "nil", field |-> field]
    ELSE afterDirectSet(directSet(sourceVal, field), sourceVal, field)

-----------------------------------------------------------------------------
(* The binders.  Each returns the error and the value the location behind   *)
(* the target pointer holds when the call returns.                          *)

\* reflect.New(ty).Elem(): the zero value of a destination type
Zero(ty) ==
    CASE Kind(ty) = "ptr"    -> <<>>
      [] Kind(ty) = "slice"  -> [isnil |-> TRUE, elems |-> <<>>]
      [] Kind(ty) = "struct" ->
           [i \in 1..Len(StructFields(Head(ty))) |-> ZeroField(StructFields(Head(ty))[i].ty)]
      [] OTHER               -> 0

\* the record after valueConvert returned r for its field i
storeField(r, vals, i) == [err |-> r.err, val |-> [vals EXCEPT ![i] = r.field.val]]

\* one pass of the field loop of singleResult (db_scan.go:162-179) on field i:
\* the error it returns with, or "nil" to go on, and the field values after it
bindField(result, f, vals, i) ==
    IF ~f.exported THEN [err |-> "nil", val |-> vals]
    ELSE IF ~f.hasTag \/ f.tag = "" THEN [err |-> "nil", val |-> vals]
    ELSE IF f.tag \notin DOMAIN result THEN [err |-> "nil", val |-> vals]
    ELSE storeField(valueConvert(result[f.tag], [ty |-> f.ty, val |-> vals[i]]), vals, i)

\* the field loop of singleResult (db_scan.go:161-181): st[i] is the state
\* after the first i fields; the first failure ends the loop
bindFields(result, fields, vals) ==
    LET st[i \in 0..Len(fields)] ==
            IF i = 0 THEN [err |-> "nil", val |-> vals]
            ELSE IF st[i - 1].err # "nil" THEN st[i - 1]
            ELSE bindField(result, fields[i], st[i - 1].val, i)
    IN  st[Len(fields)]

\* a write-back done whether or not binding the instance succeeded
writeBack_Always(r, old) == [err |-> r.err, val |-> <<r.val>>]

\* the write-back of the pointer branch (db_scan.go:155-157): the pointer slot
\* old receives the address of the fresh instance when binding it, r, succeeded,
\* and the error, if any, is returned
writeBack(r, old) ==
    [err |-> r.err, val |-> IF r.err = "nil" THEN <<r.val>> ELSE old]

\* singleResult (db_scan.go:141-182).  sr[k] is the call k levels of recursion
\* down: its target points to a location of type SubSeq(ty, k + 1, Len(ty)),
\* which holds val for the caller's call and a fresh zero instance below it
singleResult(result, ty, val) ==
    LET sr[k \in 0..Len(ty)] ==
            LET t == SubSeq(ty, k + 1, Len(ty))
                v == IF k = 0 THEN val ELSE Zero(t)
            IN  IF Kind(t) = "ptr"
                THEN writeBack(sr[k + 1], v)
                ELSE IF Kind(t) = "struct"
                     THEN bindFields(result, StructFields(Head(t)), v)
                     ELSE [err |-> Panic, val |-> v]  \* reflect.Value.NumField on a non-struct
    IN  sr[0]

\* an append that puts the new element in front
appendBound_Prepend(r, acc) ==
    IF r.err # "nil" THEN [err |-> r.err, elems |-> acc]
    ELSE [err |-> "nil", elems |-> <<r.val>> \o acc]

\* one pass of the loop of multiResults (db_scan.go:129-134): a fresh element
\* is bound from the row and, if that succeeds, appended to valueSliceObj
appendBound(r, acc) ==
    IF r.err # "nil" THEN [err |-> r.err, elems |-> acc]
    ELSE [err |-> "nil", elems |-> Append(acc, r.val)]

bindRow(row, elemTy, acc) == appendBound(singleResult(row, elemTy, Zero(elemTy)), acc)

\* the loop of multiResults (db_scan.go:128-135): st[i] is the error so far
\* and valueSliceObj after the first i rows; the first failure ends the loop
bindRows(arr, elemTy) ==
    LET st[i \in 0..Len(arr)] ==
            IF i = 0 THEN [err |-> "nil", elems |-> <<>>]
            ELSE IF st[i - 1].err # "nil" THEN st[i - 1]
            ELSE bindRow(arr[i], elemTy, st[i - 1].elems)
    IN  st[Len(arr)]

\* an end of multiResults that stores the elements bound so far on a failure
setSlice_Partial(r, val) ==
    [err |-> r.err, val |-> [isnil |-> FALSE, elems |-> r.elems]]

\* the end of multiResults (db_scan.go:131-137) once the loop returned r: a
\* failure is returned with the destination as it was, else the destination
\* is set to the new slice
setSlice(r, val) ==
    IF r.err # "nil" THEN [err |-> r.err, val |-> val]
    ELSE [err |-> "nil", val |-> [isnil |-> FALSE, elems |-> r.elems]]

multiResults(arr, ty, val) == setSlice(bindRows(arr, Tail(ty)), val)

-----------------------------------------------------------------------------
(* Scan *)

\* the kinds reflect.Value.IsNil accepts; it panics on any other
NilableKinds == {"chan", "func", "interface", "map", "ptr", "slice", "unsafeptr"}

IsNil(t) == IF Kind(t.ty) = "ptr" THEN t.val = <<>> ELSE t.val.isnil

\* the entry check of Scan (db_scan.go:69), its three tests in order
checkTarget(t) ==
    IF t.ty = <<>> THEN ErrTargetNotSettable
    ELSE IF Kind(t.ty) \notin NilableKinds THEN Panic
    ELSE IF IsNil(t) THEN ErrTargetNotSettable
    ELSE IF Kind(t.ty) # "ptr" THEN ErrTargetNotSettable
    ELSE "ok"

\* a switch whose collection branch lacks the test for no rows
dispatch_NoEmptyCheck(rows, ty, val) ==
    IF Kind(ty) = "slice" THEN multiResults(rows, ty, val)
    ELSE IF rows = <<>> THEN [err |-> ErrEmptyResult, val |-> val]
         ELSE singleResult(rows[1], ty, val)

\* a switch whose single-record branch lacks the test for no rows: datas[0]
\* is then out of range
dispatch_NoEmptyError(rows, ty, val) ==
    IF Kind(ty) = "slice"
    THEN IF rows = <<>> THEN [err |-> "nil", val |-> val]
         ELSE multiResults(rows, ty, val)
    ELSE IF rows = <<>> THEN [err |-> Panic, val |-> val]
         ELSE singleResult(rows[1], ty, val)

\* the switch of Scan (db_scan.go:76-88) on a checked target: ty and val are
\* the type and the content of the location the target points to
dispatch(rows, ty, val) ==
    IF Kind(ty) = "slice"
    THEN IF rows = <<>> THEN [err |-> "nil", val |-> val]
         ELSE multiResults(rows, ty, val)
    ELSE IF rows = <<>> THEN [err |-> ErrEmptyResult, val |-> val]
         ELSE singleResult(rows[1], ty, val)

\* the map built from one cursor row (db_scan.go:108-111): a later column of
\* the same name overwrites an earlier one
rowMap(cols, vals) ==
    [n \in {cols[i] : i \in 1..Len(cols)} |->
        vals[CHOOSE i \in 1..Len(cols) :
                cols[i] = n /\ \A j \in 1..Len(cols) : cols[j] = n => j <= i]]

\* an extraction that stops at the first row when the destination is a single
\* record
afterRow_StopAtFirst(ty, n) == IF Kind(ty) # "slice" THEN "dispatch" ELSE "next"

\* where ExtraDatasFromRows goes after buffering a row (db_scan.go:103): back
\* to rows.Next(), whatever the destination
afterRow(ty, n) == "next"

-----------------------------------------------------------------------------
(* Inputs *)

RecOld == <<Dyn("int64", 1), Dyn("string", <<"o">>), Dyn("int64", 5)>>

\* the values of type ptr^d Rec
RECURSIVE PtrVals(_)
PtrVals(d) ==
    IF d = 0 THEN {RecOld}
    ELSE {<<>>} \cup {<<v>> : v \in PtrVals(d - 1)}

RECURSIVE PtrType(_, _)
PtrType(d, base) == IF d = 0 THEN base ELSE <<"ptr">> \o PtrType(d - 1, base)

SliceOld == [isnil |-> FALSE, elems |-> <<RecOld>>]
SliceEmpty == [isnil |-> FALSE, elems |-> <<>>]
SliceNil == [isnil |-> TRUE, elems |-> <<>>]

\* targets the entry check rejects or panics on
BadTargets ==
    { [ty |-> <<>>, val |-> <<>>],                          \* nil
      [ty |-> <<"ptr", "RecNoTag">>, val |-> <<>>],          \* (*RecNoTag)(nil)
      [ty |-> <<"ptr", "slice", "RecNoTag">>, val |-> <<>>], \* (*[]RecNoTag)(nil)
      [ty |-> <<"RecNoTag">>, val |-> RecOld],               \* a record by value
      [ty |-> <<"int64">>, val |-> 5],                       \* an integer by value
      [ty |-> <<"slice", "RecNoTag">>, val |-> SliceNil],    \* a nil slice by value
      [ty |-> <<"slice", "RecNoTag">>, val |-> SliceOld] }   \* a slice by value

\* non-nil pointers to a record, possibly through further pointer levels
RecordTargets ==
    { [ty |-> PtrType(d + 1, <<s>>), val |-> <<v>>] :
        s \in StructNames, d \in 0..0, v \in PtrVals(0) }
    \cup UNION { { [ty |-> PtrType(d + 1, <<s>>), val |-> <<v>>] : v \in PtrVals(d) } :
                 s \in StructNames, d \in 1..MaxDepth }

\* non-nil pointers to a collection
SliceTargets ==
    { [ty |-> <<"ptr", "slice", "RecNoTag">>, val |-> <<v>>] :
        v \in {SliceNil, SliceEmpty, SliceOld} }
    \cup { [ty |-> <<"ptr", "slice", "ptr", "RecEmptyTag">>, val |-> <<v>>] :
        v \in {SliceNil, [isnil |-> FALSE, elems |-> <<<<RecOld>>>>]} }
    \cup { [ty |-> <<"ptr", "slice", "int64">>, val |-> <<SliceNil>>] }

\* a non-nil pointer to something that is neither a record nor a collection
ScalarTargets == { [ty |-> <<"ptr", "int64">>, val |-> <<5>>] }

Targets == BadTargets \cup RecordTargets \cup SliceTargets \cup ScalarTargets

ColumnLists == { <<"a", "b">>, <<"a", "a">> }

\* what the cursor hands out for one column of one row
CursorValues ==
    { Null, Dyn("int64", 7), Dyn("bytes", <<"4", "2">>), Dyn("bool", TRUE) }

T1 == [Y |-> 2021, M |-> 3, D |-> 4, h |-> 5, m |-> 6, s |-> 7, ns |-> 500]
T2 == [Y |-> 987, M |-> 12, D |-> 31, h |-> 23, m |-> 59, s |-> 0, ns |-> 0]

ByteTexts ==
    { <<"4", "2">>, <<"-", "3">>, <<"x">>, <<>>, <<"1", ".", "5">>, <<"3", "0", "0">> }

\* the inputs of the stand-alone valueConvert call
RawValues ==
    {Null}
    \cup {Dyn("int64", n) : n \in {7, -1, 200}}
    \cup {Dyn("float32", 15), Dyn("float64", -5)}
    \cup {Dyn("bytes", b) : b \in ByteTexts}
    \cup {Dyn("time", t) : t \in {T1, T2}}
    \cup {Dyn("bool", TRUE), Dyn("string", <<"h", "i">>), Dyn("ints", <<1>>)}

FieldTypes ==
    {"int64", "int8", "uint8", "float64", "string", "bool", "bytes", "time", "any"}

NonZeroField(t) ==
    CASE t \in SignedKinds \cup UnsignedKinds \cup FloatKinds -> Dyn(t, 9)
      [] t = "string" -> Dyn("string", <<"o">>)
      [] t = "bool"   -> Dyn("bool", TRUE)
      [] t = "bytes"  -> Dyn("bytes", <<"o">>)
      [] t = "time"   -> Dyn("time", T2)
      [] t = "any"    -> Dyn("int64", 9)

ConvFields ==
    {[ty |-> t, val |-> ZeroField(t)] : t \in FieldTypes}
    \cup {[ty |-> t, val |-> NonZeroField(t)] : t \in FieldTypes}

-----------------------------------------------------------------------------
(* Specification of Scan *)

ConvIdle ==
    /\ cvPc = "idle" /\ cvSrc = Null /\ cvRet = "pending"
    /\ cvField = [ty |-> "any", val |-> Null] /\ cvPre = cvField

Init ==
    /\ pc = "call"
    /\ target \in Targets
    /\ pre = target
    /\ columns = <<>>
    /\ datas = <<>>
    /\ ret = "pending"
    /\ ops = 0
    /\ drained = FALSE
    /\ bound = FALSE
    /\ ConvIdle

\* Scan is entered and checks its target
ScanCall ==
    /\ pc = "call"
    /\ IF checkTarget(target) = "ok"
       THEN pc' = "columns" /\ ret' = ret
       ELSE pc' = "done" /\ ret' = checkTarget(target)
    /\ UNCHANGED <<target, pre, columns, datas, ops, drained, bound, convVars>>

\* rows.Columns() succeeds
ColumnsOk ==
    /\ pc = "columns"
    /\ \E cols \in ColumnLists : columns' = cols
    /\ ops' = ops + 1
    /\ pc' = "next"
    /\ UNCHANGED <<target, pre, datas, ret, drained, bound, convVars>>

\* rows.Columns() fails
ColumnsFail ==
    /\ pc = "columns"
    /\ ops' = ops + 1
    /\ ret' = ErrCursorColumns
    /\ pc' = "done"
    /\ UNCHANGED <<target, pre, columns, datas, drained, bound, convVars>>

\* rows.Next() reports another row
NextTrue ==
    /\ pc = "next"
    /\ Len(datas) < MaxRows
    /\ ops' = ops + 1
    /\ pc' = "rowscan"
    /\ UNCHANGED <<target, pre, columns, datas, ret, drained, bound, convVars>>

\* rows.Next() reports the end of the rows
NextFalse ==
    /\ pc = "next"
    /\ ops' = ops + 1
    /\ drained' = TRUE
    /\ pc' = "dispatch"
    /\ UNCHANGED <<target, pre, columns, datas, ret, bound, convVars>>

\* rows.Scan(values...) succeeds and the row is buffered
RowScanOk ==
    /\ pc = "rowscan"
    /\ \E vals \in [1..Len(columns) -> CursorValues] :
          datas' = Append(datas, rowMap(columns, vals))
    /\ ops' = ops + 1
    /\ pc' = afterRow(Tail(target.ty), Len(datas) + 1)
    /\ UNCHANGED <<target, pre, columns, ret, drained, bound, convVars>>

\* rows.Scan(values...) fails
RowScanFail ==
    /\ pc = "rowscan"
    /\ ops' = ops + 1
    /\ ret' = ErrCursorScan
    /\ pc' = "done"
    /\ UNCHANGED <<target, pre, columns, datas, drained, bound, convVars>>

\* Scan returns r.err, the location behind the target holding r.val
returned(r) ==
    /\ target' = [target EXCEPT !.val = <<r.val>>]
    /\ ret' = r.err

\* the buffered rows are bound into the destination and Scan returns
Bind ==
    /\ pc = "dispatch"
    /\ returned(dispatch(datas, Tail(target.ty), target.val[1]))
    /\ bound' = (datas # <<>>)
    /\ pc' = "done"
    /\ UNCHANGED <<pre, columns, datas, ops, drained, convVars>>

Next ==
    \/ ScanCall
    \/ ColumnsOk
    \/ ColumnsFail
    \/ NextTrue
    \/ NextFalse
    \/ RowScanOk
    \/ RowScanFail
    \/ Bind

Spec == Init /\ [][Next]_vars

-----------------------------------------------------------------------------
(* Specification of one valueConvert call on its own *)

ScanIdle ==
    /\ pc = "idle" /\ target = [ty |-> <<>>, val |-> <<>>] /\ pre = target
    /\ columns = <<>> /\ datas = <<>> /\ ret = "pending"
    /\ ops = 0 /\ drained = FALSE /\ bound = FALSE

InitConv ==
    /\ ScanIdle
    /\ cvPc = "ready"
    /\ cvSrc \in RawValues
    /\ cvField \in ConvFields
    /\ cvPre = cvField
    /\ cvRet = "pending"

converted(r) == cvRet' = r.err /\ cvField' = r.field

Convert ==
    /\ cvPc = "ready"
    /\ converted(valueConvert(cvSrc, cvField))
    /\ cvPc' = "done"
    /\ UNCHANGED <<cvSrc, cvPre, scanVars>>

NextConv == Convert

SpecConv == InitConv /\ [][NextConv]_vars

-----------------------------------------------------------------------------
(* Shapes of the destination, as the properties below speak of them *)

\* nil, a nil pointer, or no pointer at all
NotWritable(t) == t.ty = <<>> \/ Kind(t.ty) # "ptr" \/ t.val = <<>>

\* a non-nil pointer to a collection
SliceDest(t) == ~NotWritable(t) /\ Kind(Tail(t.ty)) = "slice"

\* a non-nil pointer to anything but a collection
SingleDest(t) == ~NotWritable(t) /\ Kind(Tail(t.ty)) # "slice"

\* the number of leading pointer constructors of a type
Levels(ty) == Cardinality({i \in 1..Len(ty) : \A j \in 1..i : ty[j] = "ptr"})

\* a non-nil pointer that leads to a record through n further pointer levels
RecordDest(t, n) ==
    /\ ~NotWritable(t)
    /\ Levels(t.ty) = n + 1
    /\ Kind(SubSeq(t.ty, n + 2, Len(t.ty))) = "struct"

\* what is reached from v through n pointer levels; <<>> if one of them is nil
RECURSIVE Through(_, _)
Through(v, n) ==
    IF n = 0 THEN v
    ELSE IF v = <<>> THEN <<>> ELSE Through(v[1], n - 1)

\* the record the destination leads to; <<>> if a pointer on the way is nil
RecordOf(t) == Through(t.val, Levels(t.ty))

\* the record types whose third field has no tag or an empty tag
UntaggedThird == {"RecNoTag", "RecEmptyTag"}

CursorErrors == {ErrCursorColumns, ErrCursorScan}

ConversionErrors == {ErrConvertValue, ErrUnSupportTypeConvert, ErrSliceToString}

-----------------------------------------------------------------------------
(* Properties of Scan, under Spec *)

\* C1: for every target that is nil, a nil pointer or not a pointer at all,
\* Scan returns ErrTargetNotSettable as an ordinary error and invokes no
\* cursor operation.  (Fails: a record or an integer passed by value panics in
\* reflect.Value.IsNil.)
C1_NotWritableRejected ==
    (pc = "done" /\ NotWritable(pre)) => (ret = ErrTargetNotSettable /\ ops = 0)

\* C2: for a pointer to a collection, whatever the collection held, a cursor
\* that yields zero rows makes Scan return no error and leaves the collection
\* exactly as it was.
C2_EmptyRowsKeepCollection ==
    (pc = "done" /\ SliceDest(pre) /\ drained /\ datas = <<>>)
        => (ret = "nil" /\ target = pre /\ ~bound)

C2_Witness ==
    /\ pc = "done" /\ SliceDest(pre) /\ drained /\ datas = <<>>
    /\ pre.val[1] = SliceOld
    /\ ret = "nil" /\ target.val[1] = SliceOld

\* C3: for a non-nil pointer to anything but a collection, a cursor that yields
\* zero rows makes Scan return ErrEmptyResult and the destination is not written.
C3_EmptyRowsSingleFails ==
    (pc = "done" /\ SingleDest(pre) /\ drained /\ datas = <<>>)
        => (ret = ErrEmptyResult /\ target = pre /\ ~bound)

C3_Witness ==
    /\ pc = "done" /\ RecordDest(pre, 1) /\ drained /\ datas = <<>>
    /\ ret = ErrEmptyResult /\ target = pre

\* the error of the first row of rows that fails to bind into a fresh element
FirstFailure(rows, elemTy) ==
    LET bad == {i \in 1..Len(rows) : singleResult(rows[i], elemTy, Zero(elemTy)).err # "nil"}
        i0  == CHOOSE i \in bad : \A j \in bad : i <= j
    IN  IF bad = {} THEN "nil" ELSE singleResult(rows[i0], elemTy, Zero(elemTy)).err

\* C4: when binding into a collection fails on a row, at any position, Scan
\* returns that failure and the collection keeps exactly its contents from
\* before the call.
C4_FailedCollectionUntouched ==
    (pc = "done" /\ SliceDest(pre) /\ bound /\ ret # "nil")
        => (target = pre /\ ret = FirstFailure(datas, Tail(Tail(pre.ty))))

C4_Witness ==
    /\ pc = "done" /\ SliceDest(pre) /\ bound
    /\ pre.val[1] = SliceOld
    /\ Len(datas) = 2
    /\ singleResult(datas[1], Tail(Tail(pre.ty)), Zero(Tail(Tail(pre.ty)))).err = "nil"
    /\ ret = ErrConvertValue
    /\ target.val[1] = SliceOld

\* C5: when Scan succeeds on a collection with n >= 1 rows, the collection
\* holds exactly n elements, the i-th bound from the i-th row into a fresh
\* record, and what it held before is replaced.
C5_CollectionHoldsRowsInOrder ==
    (pc = "done" /\ SliceDest(pre) /\ bound /\ ret = "nil")
        => LET elemTy == Tail(Tail(pre.ty))
               got    == target.val[1]
           IN  /\ ~got.isnil
               /\ Len(got.elems) = Len(datas)
               /\ \A i \in 1..Len(datas) :
                     /\ got.elems[i] = singleResult(datas[i], elemTy, Zero(elemTy)).val
                     /\ elemTy = <<"RecNoTag">> =>
                           /\ got.elems[i][3] = Dyn("int64", 0)
                           /\ ("a" \in DOMAIN datas[i] /\ datas[i]["a"] = Dyn("int64", 7))
                                 => got.elems[i][1] = Dyn("int64", 7)
                           /\ ("b" \in DOMAIN datas[i] /\ datas[i]["b"] = Dyn("bytes", <<"4", "2">>))
                                 => got.elems[i][2] = Dyn("string", <<"4", "2">>)

C5_Witness ==
    /\ pc = "done" /\ SliceDest(pre) /\ bound /\ ret = "nil"
    /\ pre.val[1] = SliceOld
    /\ Len(datas) = 2
    /\ datas[1] = [a |-> Dyn("int64", 7), b |-> Dyn("bytes", <<"4", "2">>)]
    /\ datas[2] = [a |-> Dyn("bytes", <<"4", "2">>), b |-> Null]
    /\ target.val[1].elems =
          << <<Dyn("int64", 7), Dyn("string", <<"4", "2">>), Dyn("int64", 0)>>,
             <<Dyn("int64", 42), Dyn("string", <<>>), Dyn("int64", 0)>> >>

\* C6: a field without a binding tag, or with an empty one, holds after Scan
\* the value it held in the caller's destination before, for a direct record
\* and for a record reached through pointer levels that already point to a
\* record, whether the call succeeds or fails.  (Fails: a pointer level is
\* always given a fresh instance, so the record the destination led to is
\* replaced by one whose untagged fields are zero.)
C6_UntaggedFieldKept ==
    \A n \in 0..MaxDepth + 1 :
        (/\ pc = "done"
         /\ RecordDest(pre, n)
         /\ pre.ty[n + 2] \in UntaggedThird
         /\ RecordOf(pre) # <<>>)
            => (RecordOf(target) # <<>> /\ RecordOf(target)[3] = RecordOf(pre)[3])

\* C7 as claimed: the instance of each pointer level is written back before
\* the binder descends, so after a failed per-field conversion the pointer
\* levels are allocated and the fields converted before the failure are
\* visible through them, as for a direct record.
C7_WrittenBackBeforeDescending ==
    \A n \in 1..MaxDepth + 1 :
        (pc = "done" /\ RecordDest(pre, n) /\ bound /\ ret \in ConversionErrors)
            => /\ RecordOf(target) # <<>>
               /\ RecordOf(target) =
                     bindFields(datas[1], StructFields(pre.ty[n + 2]),
                                Zero(<<pre.ty[n + 2]>>)).val

\* C7 as amended: the instance of a pointer level is written back only after
\* the level below was bound without error; after a failed binding through
\* pointer levels the destination holds what it held before the call, and
\* only a direct record keeps the fields converted before the failure.
C7_WrittenBackOnSuccessOnly ==
    /\ \A n \in 1..MaxDepth + 1 :
          (pc = "done" /\ RecordDest(pre, n) /\ bound /\ ret # "nil")
              => target = pre
    /\ (/\ pc = "done" /\ RecordDest(pre, 0) /\ bound /\ ret \in ConversionErrors
        /\ "a" \in DOMAIN datas[1] /\ datas[1]["a"] = Dyn("int64", 7))
          => (target.val[1][1] = Dyn("int64", 7) /\ target.val[1][3] = pre.val[1][3])

C7_Witness ==
    /\ pc = "done" /\ RecordDest(pre, 2) /\ bound
    /\ pre.val = << <<>> >>
    /\ datas[1] = [a |-> Dyn("int64", 7), b |-> Dyn("bool", TRUE)]
    /\ ret = ErrConvertValue
    /\ target = pre

\* C10: the cursor is drained (rows.Next() has returned false) before a binder
\* is entered on the destination, and so before its first write, also for a
\* single-record destination; and when Columns or a row's Scan fails, Scan
\* returns that failure and the destination was never written.
C10_DrainedBeforeBinding ==
    /\ (bound \/ target # pre) => drained
    /\ ret \in CursorErrors => (pc = "done" /\ target = pre /\ ~bound /\ ~drained)
    /\ (pc = "done" /\ ~NotWritable(pre) /\ ~drained) => ret \in CursorErrors

C10_Witness ==
    /\ pc = "done" /\ RecordDest(pre, 0) /\ bound /\ drained
    /\ Len(datas) = 2
    /\ ret = "nil" /\ target # pre

-----------------------------------------------------------------------------
(* Properties of valueConvert, under SpecConv *)

\* C8: a numeric raw value whose family does not match the field's kind (and
\* that is not directly assignable to it) fails with ErrConvertValue and leaves
\* the field unwritten.  (Fails: the int64 and float cases of the switch fall
\* through to "return nil".)
C8_FamilyMismatchFails ==
    (/\ cvPc = "done"
     /\ ~AssignableTo(cvSrc.k, cvPre.ty)
     /\ \/ cvSrc.k = "int64" /\ ~isInteger(KindOf(cvPre.ty))
        \/ cvSrc.k \in {"float32", "float64"} /\ ~isFloat(KindOf(cvPre.ty)))
        => (cvRet = ErrConvertValue /\ cvField = cvPre)

\* the text "YYYY-MM-DD HH:MM:SS" of the two timestamps of the model
Stamp(t) ==
    IF t = T1
    THEN <<"2","0","2","1","-","0","3","-","0","4"," ","0","5",":","0","6",":","0","7">>
    ELSE <<"0","9","8","7","-","1","2","-","3","1"," ","2","3",":","5","9",":","0","0">>

\* C9 as claimed: a timestamp bound to a textual field succeeds and the field
\* holds it in the layout YYYY-MM-DD HH:MM:SS; bound to a field of any other
\* type, a timestamp-typed or any-value-typed one included, it fails with
\* ErrConvertValue.
C9_TimeFailsUnlessTextual ==
    (cvPc = "done" /\ cvSrc.k = "time")
        => IF KindOf(cvPre.ty) = "string"
           THEN cvRet = "nil" /\ cvField.val = Dyn("string", Stamp(cvSrc.v))
           ELSE cvRet = ErrConvertValue

\* C9 as amended: a timestamp bound to a textual field succeeds and the field
\* holds it in the layout YYYY-MM-DD HH:MM:SS; bound to a field it is directly
\* assignable to (a timestamp-typed or any-value-typed field) it succeeds and
\* the field holds the timestamp itself; bound to any other field it fails with
\* ErrConvertValue and the field is not written.
C9_TimeDirectOrTextual ==
    (cvPc = "done" /\ cvSrc.k = "time")
        => IF KindOf(cvPre.ty) = "string"
           THEN cvRet = "nil" /\ cvField.val = Dyn("string", Stamp(cvSrc.v))
           ELSE IF cvPre.ty \in {"time", "any"}
                THEN cvRet = "nil" /\ cvField.val = cvSrc
                ELSE cvRet = ErrConvertValue /\ cvField = cvPre

C9_Witness ==
    /\ cvPc = "done" /\ cvSrc = Dyn("time", T2)
    /\ cvPre = [ty |-> "string", val |-> Dyn("string", <<"o">>)]
    /\ cvRet = "nil"
    /\ cvField.val.v = Stamp(T2)

====
